---------------------------- MODULE Spec2Model ----------------------------
(***************************************************************************)
(* A model of the MinecraftContainer Durable Object (src/unnamed/part_003, *)
(* the latest evolution of src/src/container.ts): the persisted plugin     *)
(* configuration, the password setup / verification, and the shared RCON   *)
(* connection with the container's life cycle.                             *)
(*                                                                         *)
(* Strings that the code takes apart or puts together (plugin filenames,   *)
(* the space separated OPTIONAL_PLUGINS value, env values that are         *)
(* trimmed, hashes compared character by character) are sequences of one   *)
(* character strings.  A nullable value is a sequence of length 0 (null /  *)
(* undefined) or 1.                                                        *)
(***************************************************************************)
EXTENDS Naturals, Sequences, FiniteSets

VARIABLES
    json_data,                  \* row 1 of table "state": the JSON document
    _pluginFilenamesToEnable,   \* in-memory cache of the desired plugin list
    envVars,                    \* launch configuration of the container
    launchPlugins,              \* history: the list OPTIONAL_PLUGINS was joined from
    reply,                      \* response of the latest synchronous RPC
    specs,                      \* PLUGIN_SPECS: filename -> required env names
    auth,                       \* table "auth": null or the row with id 1
    _isPasswordSet,             \* cached "configured" flag
    blocking,                   \* task inside ctx.blockConcurrencyWhile, or null
    hasBlockConcurrency,        \* typeof ctx.blockConcurrencyWhile === 'function'
    authTask,                   \* the async auth calls in progress
    createdBy,                  \* history: password of the call that inserted auth
    inserts,                    \* history: number of INSERT INTO auth executed
    status,                     \* (await this.getState()).status
    startTask,                  \* the start() calls in progress
    launched,                   \* history: the plugin list the running container was launched with
    rcon,                       \* this.rcon: null or the promise of a connection
    conns,                      \* the promises created by initRcon and their Rcon clients
    lastRconSuccess,            \* Date of the last successful connect / probe, or null
    now,                        \* Date.now()
    rconTask,                   \* the async RCON callers in progress
    toDisconnect,               \* promises disconnectRcon waits for to disconnect
    instance,                   \* terminals[type] of the terminal page, for one type
    sockets,                    \* the WebSocket objects the page has created
    connectTask,                \* the connect(type) calls in progress
    timers                      \* setTimeout timers that no variable refers to any more

pluginVars == <<json_data, _pluginFilenamesToEnable, envVars, launchPlugins, specs>>
authVars == <<auth, _isPasswordSet, blocking, hasBlockConcurrency, authTask, createdBy, inserts>>
lifeVars == <<status, startTask, launched>>
rconVars == <<rcon, conns, lastRconSuccess, now, rconTask, toDisconnect>>
clientVars == <<instance, sockets, connectTask, timers>>
vars == <<pluginVars, authVars, lifeVars, rconVars, reply, clientVars>>

---------------------------------------------------------------------------
(* Nullable values *)

None == <<>>

Some(x) == <<x>>

---------------------------------------------------------------------------
(* Bounds of the model *)

\* enablePlugin is not called once the desired list has this many entries
MaxPlugins == 3

---------------------------------------------------------------------------
(* Strings *)

SP == " "

RECURSIVE Join(_)
\* Array.prototype.join(" ")
Join(list) ==
    IF Len(list) = 0 THEN <<>>
    ELSE IF Len(list) = 1 THEN list[1]
    ELSE list[1] \o <<SP>> \o Join(Tail(list))

RECURSIVE SplitFrom(_, _, _)
SplitFrom(str, cur, acc) ==
    IF Len(str) = 0 THEN Append(acc, cur)
    ELSE IF Head(str) = SP THEN SplitFrom(Tail(str), <<>>, Append(acc, cur))
    ELSE SplitFrom(Tail(str), Append(cur, Head(str)), acc)

\* String.prototype.split(" "): "" splits into [""]
Split(str) == SplitFrom(str, <<>>, <<>>)

RECURSIVE TrimStart(_)
TrimStart(s) == IF Len(s) > 0 /\ Head(s) = SP THEN TrimStart(Tail(s)) ELSE s

RECURSIVE TrimEnd(_)
TrimEnd(s) ==
    IF Len(s) > 0 /\ s[Len(s)] = SP THEN TrimEnd(SubSeq(s, 1, Len(s) - 1)) ELSE s

\* String.prototype.trim()
Trim(s) == TrimEnd(TrimStart(s))

\* Array.prototype.includes
Includes(list, x) == \E i \in 1..Len(list) : list[i] = x

\* Array.prototype.filter(p => p !== x)
RECURSIVE FilterOut(_, _)
FilterOut(list, x) ==
    IF Len(list) = 0 THEN <<>>
    ELSE IF Head(list) = x THEN FilterOut(Tail(list), x)
    ELSE <<Head(list)>> \o FilterOut(Tail(list), x)

---------------------------------------------------------------------------
(* The plugin catalog *)

\* 'Dynmap-3.7-beta-11-spigot'
DYNMAP_PLUGIN_FILENAME == <<"D", "y">>

\* 'playit-minecraft-plugin'
PLAYIT_PLUGIN_FILENAME == <<"p", "l">>

\* a filename that is in no spec
UNKNOWN_PLUGIN_FILENAME == <<"u">>

\* the filenames of PLUGIN_SPECS, in catalog order
CatalogFilenames == <<DYNMAP_PLUGIN_FILENAME, PLAYIT_PLUGIN_FILENAME>>

\* PLUGIN_SPECS as shipped: no plugin requires an env variable
PLUGIN_SPECS ==
    [f \in {CatalogFilenames[i] : i \in 1..Len(CatalogFilenames)} |-> <<>>]

\* the catalogs the validation of enablePlugin is exercised with: the shipped
\* one, and ones whose optional plugin declares required env variables
CatalogChoices ==
    { [PLUGIN_SPECS EXCEPT ![PLAYIT_PLUGIN_FILENAME] = req] :
        req \in {<<>>, <<"K1">>, <<"K1", "K2">>} }

\* filenames the RPC callers pass
Filenames == {DYNMAP_PLUGIN_FILENAME, PLAYIT_PLUGIN_FILENAME, UNKNOWN_PLUGIN_FILENAME}

\* env variable names and values the RPC callers pass
EnvKeys == {"K1", "K2"}

EnvValues == {<<>>, <<SP>>, <<"x">>}

\* a value of an env map as it arrives over RPC: a string, or null / undefined
EnvArgValues == {Some(v) : v \in EnvValues} \cup {None}

\* every env argument: a map from some keys to such values
EnvArgs == UNION { [ks -> EnvArgValues] : ks \in SUBSET EnvKeys }


---------------------------------------------------------------------------
(* The JSON document of table "state" *)

EmptyEnv == [k \in {} |-> <<>>]

\* INSERT OR IGNORE INTO state (id, json_data) VALUES (1, jsonb('{}'))
EmptyDocument == [optionalPlugins |-> None, pluginEnv |-> <<>>]

\* index of filename's entry in the object $.pluginEnv (kept in insertion
\* order, as JSON.parse and Object.entries see it), 0 when it has none
PluginEnvIndex(doc, filename) ==
    IF \E i \in 1..Len(doc.pluginEnv) : doc.pluginEnv[i].filename = filename
    THEN CHOOSE i \in 1..Len(doc.pluginEnv) : doc.pluginEnv[i].filename = filename
    ELSE 0

\* next = env instead of { ...current } with env over it
MergeEnvOverwrite(a, b) == b

\* { ...current } overridden by next: a key of b wins, every key of a stays
MergeEnv(a, b) ==
    [k \in DOMAIN a \cup DOMAIN b |-> IF k \in DOMAIN b THEN b[k] ELSE a[k]]

\* json_data = jsonb(...) instead of jsonb_patch: the document is overwritten
JsonbOverwriteOptionalPlugins(doc, plugins) ==
    [optionalPlugins |-> Some(plugins), pluginEnv |-> <<>>]

\* jsonb_patch(json_data, { optionalPlugins: plugins }): a merge patch replaces
\* an array as a whole and leaves the other members of the document alone
JsonbPatchOptionalPlugins(doc, plugins) ==
    [doc EXCEPT !.optionalPlugins = Some(plugins)]

\* jsonb_patch(json_data, { pluginEnv: { [filename]: next } }): a merge patch
\* merges objects member by member
JsonbPatchPluginEnv(doc, filename, next) ==
    LET i == PluginEnvIndex(doc, filename) IN
    IF i = 0
    THEN [doc EXCEPT !.pluginEnv = Append(@, [filename |-> filename, env |-> next])]
    ELSE [doc EXCEPT !.pluginEnv[i].env = MergeEnv(@, next)]

\* SELECT json(COALESCE(jsonb_extract(json_data, '$.optionalPlugins'), jsonb('[]')))
SelectOptionalPlugins(doc) ==
    IF doc.optionalPlugins = None THEN <<>> ELSE doc.optionalPlugins[1]

\* getConfiguredPluginEnv(filename) on document doc
ConfiguredPluginEnvIn(doc, filename) ==
    LET i == PluginEnvIndex(doc, filename) IN
    IF i = 0 THEN EmptyEnv ELSE doc.pluginEnv[i].env

getConfiguredPluginEnv(filename) == ConfiguredPluginEnvIn(json_data, filename)

\* setConfiguredPluginEnv without its filter: null and undefined are written as
\* the empty string
DefinedEntriesUnfiltered(env) ==
    [k \in DOMAIN env |-> IF env[k] = None THEN <<>> ELSE env[k][1]]

\* the entries of env that setConfiguredPluginEnv keeps: value !== undefined
\* && value !== null
DefinedEntries(env) ==
    [k \in {key \in DOMAIN env : env[key] # None} |-> env[k][1]]

\* the document after setConfiguredPluginEnv(filename, env)
setConfiguredPluginEnv(doc, filename, env) ==
    LET current == ConfiguredPluginEnvIn(doc, filename)
        next == MergeEnv(current, DefinedEntries(env))
    IN JsonbPatchPluginEnv(doc, filename, next)

---------------------------------------------------------------------------
(* The desired plugin list: get / set pluginFilenamesToEnable *)

\* the list the getter builds from storage: Dynmap is always enabled
ParsedOptionalPlugins(doc) ==
    LET parsed == SelectOptionalPlugins(doc) IN
    IF ~Includes(parsed, DYNMAP_PLUGIN_FILENAME)
    THEN <<DYNMAP_PLUGIN_FILENAME>> \o parsed
    ELSE parsed

\* value of the getter for a cache and a document
GetPluginFilenames(cache, doc) ==
    IF cache # None THEN cache[1] ELSE ParsedOptionalPlugins(doc)

\* get pluginFilenamesToEnable in the current state; the getter leaves the
\* value in the cache
pluginFilenamesToEnable == GetPluginFilenames(_pluginFilenamesToEnable, json_data)

\* set pluginFilenamesToEnable(plugins), on document doc
SetPluginFilenames(doc, plugins) ==
    /\ _pluginFilenamesToEnable' = Some(plugins)
    /\ json_data' = JsonbPatchOptionalPlugins(doc, plugins)

\* getRequiredEnvForPlugin(filename): names of the spec's requiredEnv
getRequiredEnvForPlugin(filename) ==
    IF filename \in DOMAIN specs THEN specs[filename] ELSE <<>>

\* the validation without .trim(): a value of blanks passes
IsMissingUntrimmed(configured, name) ==
    \/ name \notin DOMAIN configured
    \/ configured[name] = <<>>

\* !configured[name] || configured[name].trim() === ''
IsMissing(configured, name) ==
    \/ name \notin DOMAIN configured
    \/ configured[name] = <<>>
    \/ Trim(configured[name]) = <<>>

RECURSIVE MissingEnv(_, _)
\* requiredEnv.filter(...).map(e => e.name)
MissingEnv(requiredEnv, configured) ==
    IF Len(requiredEnv) = 0 THEN <<>>
    ELSE IF IsMissing(configured, Head(requiredEnv))
    THEN <<Head(requiredEnv)>> \o MissingEnv(Tail(requiredEnv), configured)
    ELSE MissingEnv(Tail(requiredEnv), configured)

\* the list enablePlugin hands to the setter
EnabledList(list, filename) == Append(list, filename)

\* the list disablePlugin hands to the setter
DisabledList(list, filename) == FilterOut(list, filename)

\* disablePlugin without its guard
IsProtectedNever(filename) == FALSE

\* the guard of disablePlugin
IsProtected(filename) == filename = DYNMAP_PLUGIN_FILENAME

\* enablePlugin({ filename, env }); env is null when the caller passes none
enablePlugin(filename, env) ==
    LET doc == IF env # None
               THEN setConfiguredPluginEnv(json_data, filename, env[1])
               ELSE json_data
        missing == MissingEnv(getRequiredEnvForPlugin(filename),
                              ConfiguredPluginEnvIn(doc, filename))
    IN
    /\ Len(pluginFilenamesToEnable) < MaxPlugins
    /\ IF Len(missing) > 0
       THEN /\ json_data' = doc
            /\ UNCHANGED _pluginFilenamesToEnable
            /\ reply' = [op |-> "enablePlugin", filename |-> filename, env |-> env,
                         threw |-> TRUE, missingNames |-> missing]
       ELSE /\ SetPluginFilenames(doc, EnabledList(pluginFilenamesToEnable, filename))
            /\ reply' = [op |-> "enablePlugin", filename |-> filename, env |-> env,
                         threw |-> FALSE, missingNames |-> <<>>]
    /\ UNCHANGED <<envVars, launchPlugins, specs, authVars, clientVars, lifeVars, rconVars>>

\* disablePlugin({ filename })
disablePlugin(filename) ==
    /\ IF IsProtected(filename)
       THEN /\ UNCHANGED <<json_data, _pluginFilenamesToEnable>>
            /\ reply' = [op |-> "disablePlugin", filename |-> filename, threw |-> TRUE]
       ELSE /\ SetPluginFilenames(json_data,
                                  DisabledList(pluginFilenamesToEnable, filename))
            /\ reply' = [op |-> "disablePlugin", filename |-> filename, threw |-> FALSE]
    /\ UNCHANGED <<envVars, launchPlugins, specs, authVars, clientVars, lifeVars, rconVars>>

\* enablePlugin({ filename }) where the UPDATE of the setter throws: the setter
\* has assigned the cache before it calls exec, and the exception leaves the call
enablePluginWriteFails(filename) ==
    /\ Len(pluginFilenamesToEnable) < MaxPlugins
    /\ Len(MissingEnv(getRequiredEnvForPlugin(filename),
                      getConfiguredPluginEnv(filename))) = 0
    /\ _pluginFilenamesToEnable' = Some(EnabledList(pluginFilenamesToEnable, filename))
    /\ reply' = [op |-> "enablePlugin", filename |-> filename, env |-> None,
                 threw |-> TRUE, missingNames |-> <<>>]
    /\ UNCHANGED <<json_data, envVars, launchPlugins, specs, authVars, clientVars, lifeVars, rconVars>>

\* disablePlugin({ filename }) where the UPDATE of the setter throws
disablePluginWriteFails(filename) ==
    /\ ~IsProtected(filename)
    /\ _pluginFilenamesToEnable' = Some(DisabledList(pluginFilenamesToEnable, filename))
    /\ reply' = [op |-> "disablePlugin", filename |-> filename, threw |-> TRUE]
    /\ UNCHANGED <<json_data, envVars, launchPlugins, specs, authVars, clientVars, lifeVars, rconVars>>

\* setPluginEnv({ filename, env })
setPluginEnv(filename, env) ==
    /\ json_data' = setConfiguredPluginEnv(json_data, filename, env)
    /\ reply' = [op |-> "setPluginEnv", filename |-> filename, env |-> env,
                 threw |-> FALSE]
    /\ UNCHANGED <<_pluginFilenamesToEnable, envVars, launchPlugins, specs, authVars, clientVars, lifeVars, rconVars>>

\* the state getPluginState gives a plugin
PluginState(desiredPlugins, enabledPlugins, filename) ==
    IF Includes(desiredPlugins, filename)
    THEN (IF Includes(enabledPlugins, filename)
          THEN "ENABLED" ELSE "DISABLED_WILL_ENABLE_AFTER_RESTART")
    ELSE (IF Includes(enabledPlugins, filename)
          THEN "ENABLED_WILL_DISABLE_AFTER_RESTART" ELSE "DISABLED")

\* getPluginState(): one entry per plugin of the catalog
getPluginState ==
    LET enabledPlugins == Split(envVars.OPTIONAL_PLUGINS)
        desiredPlugins == pluginFilenamesToEnable
    IN
    /\ _pluginFilenamesToEnable' = Some(desiredPlugins)
    /\ reply' = [op |-> "getPluginState",
                 plugins |-> [i \in 1..Len(CatalogFilenames) |->
                     [filename |-> CatalogFilenames[i],
                      state |-> PluginState(desiredPlugins, enabledPlugins,
                                            CatalogFilenames[i]),
                      configuredEnv |-> getConfiguredPluginEnv(CatalogFilenames[i])]]]
    /\ UNCHANGED <<json_data, envVars, launchPlugins, specs, authVars, clientVars, lifeVars, rconVars>>


---------------------------------------------------------------------------
(* The launch configuration and the container's life cycle *)

\* RCON_PASSWORD: "minecraft"
RCON_PASSWORD == <<"m">>

\* the envVars initialiser; of the fixed members only RCON_PASSWORD is kept
InitialEnvVars(doc) ==
    [k \in {"OPTIONAL_PLUGINS", "RCON_PASSWORD"} |->
        IF k = "OPTIONAL_PLUGINS" THEN Join(GetPluginFilenames(None, doc))
        ELSE RCON_PASSWORD]

\* (this.envVars as any)[key] = value
SetEnvVar(env, key, value) ==
    [k \in DOMAIN env \cup {key} |-> IF k = key THEN value ELSE env[k]]

RECURSIVE InjectEntries(_, _, _)
\* the inner loop of start(): if (this.envVars[key] !== value) envVars[key] = value,
\* over the keys of one plugin (a key is written once, the order is immaterial)
InjectEntries(env, pluginEnv, keys) ==
    IF keys = {} THEN env
    ELSE LET key == CHOOSE k \in keys : TRUE
             next == IF key \notin DOMAIN env \/ env[key] # pluginEnv[key]
                     THEN SetEnvVar(env, key, pluginEnv[key])
                     ELSE env
         IN InjectEntries(next, pluginEnv, keys \ {key})

RECURSIVE InjectPluginEnv(_, _)
\* the outer loop of start() over Object.entries(allPluginEnv)
InjectPluginEnv(env, allPluginEnv) ==
    IF Len(allPluginEnv) = 0 THEN env
    ELSE InjectPluginEnv(
            InjectEntries(env, Head(allPluginEnv).env, DOMAIN Head(allPluginEnv).env),
            Tail(allPluginEnv))

\* getAllConfiguredPluginEnv()
getAllConfiguredPluginEnv == json_data.pluginEnv

\* the synchronous head of start(): the launch configuration is recomputed
StartEnvVars ==
    LET newOptionalPlugins == Join(pluginFilenamesToEnable)
        withPlugins == IF newOptionalPlugins # envVars.OPTIONAL_PLUGINS
                       THEN [envVars EXCEPT !.OPTIONAL_PLUGINS = newOptionalPlugins]
                       ELSE envVars
    IN InjectPluginEnv(withPlugins, getAllConfiguredPluginEnv)

\* getStatus(): the status start() and the worker see
getStatus(st) ==
    IF st = "stopped_with_code" THEN "stopped"
    ELSE IF st = "healthy" THEN "running"
    ELSE st

Statuses == {"stopped", "stopped_with_code", "stopping", "running", "healthy"}

StartTasks == {"s1"}

\* the callers of the shared connection, one call of each in progress at most
RconCallers == {"getRconStatus", "webSocketMessage"}

RconTasks == RconCallers \cup {"onStart"}

IdleStart == [pc |-> "idle", ret |-> "none"]

IdleRcon == [op |-> "idle", pc |-> "idle", p |-> 0, ret |-> "none"]

\* start(), up to its first await
StartCall(t) ==
    /\ startTask[t].pc \in {"idle", "done"}
    /\ _pluginFilenamesToEnable' = Some(pluginFilenamesToEnable)
    /\ envVars' = StartEnvVars
    /\ launchPlugins' = pluginFilenamesToEnable
    /\ startTask' = [startTask EXCEPT ![t] = [pc |-> "status", ret |-> "none"]]
    /\ UNCHANGED <<json_data, specs, authVars, clientVars, status, launched, rconVars, reply>>

\* if (await this.getStatus() !== 'stopped')
StartStatus(t) ==
    /\ startTask[t].pc = "status"
    /\ startTask' = [startTask EXCEPT ![t].pc =
            IF getStatus(status) # "stopped" THEN "poll" ELSE "ports"]
    /\ UNCHANGED <<pluginVars, authVars, clientVars, status, launched, rconVars, reply>>

\* while (await this.getStatus() !== 'running') sleep 250 ms
StartPoll(t) ==
    /\ startTask[t].pc = "poll"
    /\ startTask' = [startTask EXCEPT ![t].pc =
            IF getStatus(status) # "running" THEN "poll" ELSE "recheck"]
    /\ UNCHANGED <<pluginVars, authVars, clientVars, status, launched, rconVars, reply>>

\* if (await this.getStatus() !== 'running') throw "Server did not start in time"
StartRecheck(t) ==
    /\ startTask[t].pc = "recheck"
    /\ startTask' = [startTask EXCEPT ![t] =
            IF getStatus(status) # "running"
            THEN [pc |-> "done", ret |-> "threw"]
            ELSE [pc |-> "ports", ret |-> "none"]]
    /\ UNCHANGED <<pluginVars, authVars, clientVars, status, launched, rconVars, reply>>

\* super.startAndWaitForPorts: a container that is not running is started with
\* the current envVars, whose OPTIONAL_PLUGINS it reads as a list
StartPorts(t) ==
    /\ startTask[t].pc = "ports"
    /\ startTask' = [startTask EXCEPT ![t].pc = "waitPorts"]
    /\ IF status \in {"stopped", "stopped_with_code"}
       THEN status' = "running" /\ launched' = Some(Split(envVars.OPTIONAL_PLUGINS))
       ELSE UNCHANGED <<status, launched>>
    /\ UNCHANGED <<pluginVars, authVars, clientVars, rconVars, reply>>

\* startAndWaitForPorts returns once the ports answer, and throws when the
\* container is gone or portReadyTimeoutMS has passed
StartReturn(t) ==
    /\ startTask[t].pc = "waitPorts"
    /\ \/ /\ status = "healthy"
          /\ startTask' = [startTask EXCEPT ![t] = [pc |-> "done", ret |-> "ok"]]
       \/ /\ status # "healthy"
          /\ startTask' = [startTask EXCEPT ![t] = [pc |-> "done", ret |-> "threw"]]
    /\ UNCHANGED <<pluginVars, authVars, clientVars, status, launched, rconVars, reply>>

\* onStart(): ctx.waitUntil(this.initRcon().then(rcon => rcon?.send(...))) once
\* the one before has ended
OnStartHook ==
    IF rconTask["onStart"].pc \in {"idle", "done"}
    THEN rconTask' = [rconTask EXCEPT !["onStart"] =
                [op |-> "onStart", pc |-> "getState1", p |-> 0, ret |-> "none"]]
    ELSE UNCHANGED rconTask

\* the ports answer: the container is healthy and onStart() runs
PortsReady ==
    /\ status = "running"
    /\ status' = "healthy"
    /\ OnStartHook
    /\ UNCHANGED <<pluginVars, authVars, clientVars, startTask, launched, reply>>
    /\ UNCHANGED <<rcon, conns, lastRconSuccess, now, toDisconnect>>

\* stop() of the Container class, or its sleepAfter alarm
StopRequested ==
    /\ status \in {"running", "healthy"}
    /\ status' = "stopping"
    /\ UNCHANGED <<pluginVars, authVars, clientVars, startTask, launched, rconVars, reply>>

\* disconnectRcon(), up to its await
disconnectRcon ==
    IF rcon # None
    THEN /\ rcon' = None
         /\ toDisconnect' = toDisconnect \cup {rcon[1]}
    ELSE UNCHANGED <<rcon, toDisconnect>>

\* the container has exited, by itself (with a code) or after stop(): every
\* connection into it is dead, and onStop() runs
Exited ==
    /\ \/ status = "stopping" /\ status' \in {"stopped", "stopped_with_code"}
       \/ status \in {"running", "healthy"} /\ status' = "stopped_with_code"
    /\ conns' = [c \in DOMAIN conns |-> [conns[c] EXCEPT !.open = FALSE]]
    /\ disconnectRcon
    /\ launched' = None
    /\ UNCHANGED <<pluginVars, authVars, clientVars, startTask, reply>>
    /\ UNCHANGED <<lastRconSuccess, now, rconTask>>


---------------------------------------------------------------------------
(* Authentication *)

\* longest password the callers pass
MaxPasswordLen == 2

\* the passwords the callers pass: the empty one, and one that is a prefix of
\* another
Passwords == {pw \in {<<>>, <<"a">>, <<"a", "b">>, <<"a", "b", "a">>} :
                Len(pw) <= MaxPasswordLen}

\* base64urlEncode(generateRandomBytes(16))
Salts == {<<"s">>, <<"t">>}

\* base64urlEncode(generateRandomBytes(32))
SymKeys == {<<"k">>, <<"l">>}

AuthTasks == {"a1", "a2"}

RECURSIVE PadTo(_, _)
PadTo(s, n) == IF Len(s) >= n THEN s ELSE PadTo(Append(s, "_"), n)

\* derivePasswordHash(password, saltB64): PBKDF2 is taken to be free of
\* collisions; the digest has one length for every password
derivePasswordHash(password, saltB64) == saltB64 \o PadTo(password, MaxPasswordLen + 1)

RECURSIVE MismatchFrom(_, _, _)
\* the loop of timingSafeEqualAscii: mismatch |= a.charCodeAt(i) ^ b.charCodeAt(i)
MismatchFrom(a, b, i) ==
    IF i > Len(a) THEN FALSE
    ELSE (a[i] # b[i]) \/ MismatchFrom(a, b, i + 1)

\* a comparison of the lengths alone
timingSafeEqualLength(a, b) == Len(a) = Len(b)

timingSafeEqualAscii(a, b) ==
    IF Len(a) # Len(b) THEN FALSE ELSE ~MismatchFrom(a, b, 1)

\* a cursor whose one() throws on every result
OneAlwaysThrows(table) == [threw |-> TRUE]

\* cursor.one(): throws unless the query gave exactly one row
One(table) ==
    IF table = None THEN [threw |-> TRUE] ELSE [threw |-> FALSE, row |-> table[1]]

\* setupPassword without the check for a row
PasswordExistsNever(table) == FALSE

\* the check at the head of setupPassword's transaction: try { if
\* (checkResult.one().ok) return { created: false } } catch (_) { }
PasswordExists(table) == ~One(table).threw

\* verifyPassword without its try / catch
VerifyUncaught == [ok |-> FALSE, threw |-> TRUE]

\* what verifyPassword returns from its catch block
VerifyCaught == [ok |-> FALSE, threw |-> FALSE]

IdleAuth == [op |-> "idle", pc |-> "idle", password |-> <<>>, salt |-> <<>>,
             symKey |-> <<>>, storedHash |-> <<>>, seen |-> None, ret |-> None]

\* a call that has returned: its locals are gone
Finished(me) == [me EXCEPT !.pc = "done", !.salt = <<>>, !.symKey = <<>>,
                           !.storedHash = <<>>]

\* no other event is delivered while a task is inside blockConcurrencyWhile
Deliverable(t) == blocking = None \/ blocking = Some(t)

\* setupPassword({ password }), up to await this.derivePasswordHash(...)
SetupCall(t, password) ==
    /\ authTask[t].pc \in {"idle", "done"}
    /\ blocking = None
    /\ \E salt \in Salts, symKey \in SymKeys :
          authTask' = [authTask EXCEPT ![t] =
              [op |-> "setupPassword", pc |-> "derive", password |-> password,
               salt |-> salt, symKey |-> symKey, storedHash |-> <<>>,
               seen |-> auth, ret |-> None]]
    /\ blocking' = IF hasBlockConcurrency THEN Some(t) ELSE None
    /\ UNCHANGED <<auth, _isPasswordSet, hasBlockConcurrency, clientVars, createdBy, inserts>>
    /\ UNCHANGED <<pluginVars, lifeVars, rconVars, reply>>

\* the transactionSync of setupPassword, and its return
SetupTransaction(t) ==
    LET me == authTask[t]
        hash == derivePasswordHash(me.password, me.salt)
    IN
    /\ me.op = "setupPassword" /\ me.pc = "derive"
    /\ Deliverable(t)
    /\ IF PasswordExists(auth)
       THEN /\ authTask' = [authTask EXCEPT ![t] = Finished(me),
                   ![t].ret = Some([created |-> FALSE, symKey |-> None, threw |-> FALSE])]
            /\ UNCHANGED <<auth, _isPasswordSet, createdBy, inserts>>
       ELSE IF auth # None
       THEN \* INSERT of a second row with id 1: the primary key rejects it
            /\ authTask' = [authTask EXCEPT ![t] = Finished(me),
                   ![t].ret = Some([created |-> FALSE, symKey |-> None, threw |-> TRUE])]
            /\ UNCHANGED <<auth, _isPasswordSet, createdBy, inserts>>
       ELSE /\ auth' = Some([salt |-> me.salt, password_hash |-> hash,
                             sym_key |-> me.symKey, created_at |-> now])
            /\ _isPasswordSet' = TRUE
            /\ createdBy' = Some(me.password)
            /\ inserts' = inserts + 1
            /\ authTask' = [authTask EXCEPT ![t] = Finished(me),
                   ![t].ret = Some([created |-> TRUE, symKey |-> Some(me.symKey),
                                    threw |-> FALSE])]
    /\ blocking' = None
    /\ UNCHANGED <<hasBlockConcurrency, clientVars>>
    /\ UNCHANGED <<pluginVars, lifeVars, rconVars, reply>>

\* verifyPassword({ password }), up to await this.derivePasswordHash(...)
VerifyCall(t, password) ==
    LET one == One(auth) IN
    /\ authTask[t].pc \in {"idle", "done"}
    /\ blocking = None
    /\ IF one.threw
       THEN authTask' = [authTask EXCEPT ![t] =
              [op |-> "verifyPassword", pc |-> "done", password |-> password,
               salt |-> <<>>, symKey |-> <<>>, storedHash |-> <<>>,
               seen |-> createdBy, ret |-> Some(VerifyCaught)]]
       ELSE authTask' = [authTask EXCEPT ![t] =
              [op |-> "verifyPassword", pc |-> "derive", password |-> password,
               salt |-> one.row.salt, symKey |-> <<>>,
               storedHash |-> one.row.password_hash,
               seen |-> createdBy, ret |-> None]]
    /\ UNCHANGED <<auth, _isPasswordSet, blocking, hasBlockConcurrency, clientVars, createdBy, inserts>>
    /\ UNCHANGED <<pluginVars, lifeVars, rconVars, reply>>

\* verifyPassword after the hash is derived: the constant time comparison
VerifyCompare(t) ==
    LET me == authTask[t]
        derived == derivePasswordHash(me.password, me.salt)
    IN
    /\ me.op = "verifyPassword" /\ me.pc = "derive"
    /\ Deliverable(t)
    /\ authTask' = [authTask EXCEPT ![t] = Finished(me),
           ![t].ret = Some([ok |-> timingSafeEqualAscii(derived, me.storedHash),
                            threw |-> FALSE])]
    /\ UNCHANGED <<auth, _isPasswordSet, blocking, hasBlockConcurrency, clientVars, createdBy, inserts>>
    /\ UNCHANGED <<pluginVars, lifeVars, rconVars, reply>>

\* clearAuth that deletes the row and leaves the cached flag as it is
clearAuthKeepsFlag ==
    /\ blocking = None
    /\ auth' = None
    /\ createdBy' = None
    /\ inserts' = 0
    /\ reply' = [op |-> "clearAuth"]
    /\ UNCHANGED <<_isPasswordSet, blocking, hasBlockConcurrency, clientVars, authTask>>
    /\ UNCHANGED <<pluginVars, lifeVars, rconVars>>

\* clearAuth()
clearAuth ==
    /\ blocking = None
    /\ auth' = None
    /\ _isPasswordSet' = FALSE
    /\ createdBy' = None
    /\ inserts' = 0
    /\ reply' = [op |-> "clearAuth"]
    /\ UNCHANGED <<blocking, hasBlockConcurrency, clientVars, authTask>>
    /\ UNCHANGED <<pluginVars, lifeVars, rconVars>>

\* getSymmetricKey that answers {} whatever is stored
getSymmetricKeyNever ==
    /\ blocking = None
    /\ reply' = [op |-> "getSymmetricKey", symKey |-> None]
    /\ UNCHANGED <<pluginVars, authVars, clientVars, lifeVars, rconVars>>

\* getSymmetricKey()
getSymmetricKey ==
    /\ blocking = None
    /\ reply' = [op |-> "getSymmetricKey",
                 symKey |-> IF ~_isPasswordSet THEN None
                            ELSE IF One(auth).threw THEN None
                            ELSE Some(One(auth).row.sym_key)]
    /\ UNCHANGED <<pluginVars, authVars, clientVars, lifeVars, rconVars>>

\* isPasswordSet()
isPasswordSet ==
    /\ blocking = None
    /\ reply' = [op |-> "isPasswordSet", value |-> _isPasswordSet]
    /\ UNCHANGED <<pluginVars, authVars, clientVars, lifeVars, rconVars>>

\* time passes
MaxTicks == 2

\* milliseconds of one step of the clock
TickMs == 5000

\* Date.now() in the initial state
StartMs == 20000

Tick ==
    /\ now < StartMs + MaxTicks * TickMs
    /\ now' = now + TickMs
    /\ UNCHANGED <<rcon, conns, lastRconSuccess, rconTask, toDisconnect>>
    /\ UNCHANGED <<pluginVars, authVars, clientVars, lifeVars, reply>>


---------------------------------------------------------------------------
(* The shared RCON connection *)

\* promises initRcon can create
MaxConns == 3

\* the window of the validity check of initRcon, in milliseconds
StaleMs == 10000

ConnIds == 1..MaxConns

UnusedConn == [st |-> "unused", open |-> FALSE]

HasFreeConn == \E c \in ConnIds : conns[c].st = "unused"

NewConn == CHOOSE c \in ConnIds :
              conns[c].st = "unused" /\ \A d \in ConnIds : d < c => conns[d].st # "unused"

Settled(c) == conns[c].st \in {"resolved", "rejected"}

\* this.lastRconSuccess?.getTime() ?? 0 < Date.now() - 10000, which JavaScript
\* reads as  getTime() ?? (0 < Date.now() - 10000): a number other than 0 is truthy
NeedsProbe(last, t) ==
    IF last # None THEN last[1] # 0 ELSE t > StaleMs

\* Rcon.isConnected() of ./lib/rcon
isConnected(c) == conns[c].open

\* Rcon.send() of ./lib/rcon answers on a live connection and throws on a dead one
SendSucceeds(c) == conns[c].open

Done(t, ret) == [op |-> rconTask[t].op, pc |-> "done", p |-> 0, ret |-> ret]

At(t, pc, c) == [op |-> rconTask[t].op, pc |-> pc, p |-> c, ret |-> "none"]

\* promise.then(rcon => rcon.send(...)) on promise c, in a call of op: the
\* callback runs at once on a resolved promise, never on a rejected one, and
\* later on a pending one
ThenSend(op, c) ==
    IF conns[c].st = "resolved" THEN [op |-> op, pc |-> "sending", p |-> c, ret |-> "none"]
    ELSE IF conns[c].st = "rejected"
    THEN [op |-> op, pc |-> "done", p |-> 0,
          ret |-> IF op = "getRconStatus" THEN "offline" ELSE "threw"]
    ELSE [op |-> op, pc |-> "sendWait", p |-> c, ret |-> "none"]

\* what the caller of initRcon does with what initRcon gave it: result is
\* "null", "client" (the Rcon of promise c) or "threw"; rconNow is this.rcon at
\* that moment
AfterInitRcon(t, result, c, rconNow) ==
    LET op == rconTask[t].op IN
    IF result = "threw" THEN Done(t, "threw")
    ELSE IF op = "onStart"
    THEN (IF result = "null" THEN Done(t, "null") ELSE At(t, "sending", c))
    ELSE IF op = "getRconStatus"
    THEN (IF result = "null" THEN Done(t, "offline") ELSE Done(t, "online"))
    ELSE \* webSocketMessage: this.rcon!.then(rcon => rcon.send(messageString))
         IF result = "null" THEN Done(t, "offlineNotice")
         ELSE IF rconNow = None THEN Done(t, "threw")
         ELSE ThenSend(op, rconNow[1])

\* getRconStatus() / webSocketMessage(ws, message), up to the first await that
\* lets another event in
RconCall(t, op) ==
    /\ rconTask[t].pc \in {"idle", "done"}
    /\ IF rcon = None
       THEN /\ rconTask' = [rconTask EXCEPT ![t] =
                    [op |-> op, pc |-> "getState1", p |-> 0, ret |-> "none"]]
       ELSE /\ rconTask' = [rconTask EXCEPT ![t] = ThenSend(op, rcon[1])]
    /\ UNCHANGED <<rcon, conns, lastRconSuccess, now, toDisconnect>>
    /\ UNCHANGED <<pluginVars, authVars, clientVars, lifeVars, reply>>

\* initRcon: (await this.getState()).status === 'stopped'
GetState1(t) ==
    /\ rconTask[t].pc = "getState1"
    /\ rconTask' = [rconTask EXCEPT ![t] =
          IF status = "stopped" THEN AfterInitRcon(t, "null", 0, rcon)
          ELSE At(t, "getState2", 0)]
    /\ UNCHANGED <<rcon, conns, lastRconSuccess, now, toDisconnect>>
    /\ UNCHANGED <<pluginVars, authVars, clientVars, lifeVars, reply>>

\* this.rcon = new Promise(...): the executor calls rcon.connect() at once
ConnectStart(t) ==
    /\ HasFreeConn
    /\ conns' = [conns EXCEPT ![NewConn].st = "pending"]
    /\ rcon' = Some(NewConn)
    /\ rconTask' = [rconTask EXCEPT ![t] = At(t, "awaitNew", NewConn)]

\* initRcon: || (await this.getState()).status === 'stopping', and past the
\* guard, without another event in between: if (this.rcon) await it, else connect
GetState2(t) ==
    /\ rconTask[t].pc = "getState2"
    /\ IF status = "stopping"
       THEN /\ rconTask' = [rconTask EXCEPT ![t] = AfterInitRcon(t, "null", 0, rcon)]
            /\ UNCHANGED <<rcon, conns>>
       ELSE IF rcon # None
       THEN /\ rconTask' = [rconTask EXCEPT ![t] = At(t, "awaitRcon", rcon[1])]
            /\ UNCHANGED <<rcon, conns>>
       ELSE ConnectStart(t)
    /\ UNCHANGED <<lastRconSuccess, now, toDisconnect>>
    /\ UNCHANGED <<pluginVars, authVars, clientVars, lifeVars, reply>>

\* initRcon: const client = await this.rcon, then the validity check
AwaitRcon(t) ==
    LET c == rconTask[t].p IN
    /\ rconTask[t].pc = "awaitRcon"
    /\ Settled(c)
    /\ IF conns[c].st = "rejected"
       THEN /\ rconTask' = [rconTask EXCEPT ![t] = AfterInitRcon(t, "threw", c, rcon)]
       ELSE IF NeedsProbe(lastRconSuccess, now)
       THEN /\ rconTask' = [rconTask EXCEPT ![t] = At(t, "probing", c)]
       ELSE /\ rconTask' = [rconTask EXCEPT ![t] = AfterInitRcon(t, "client", c, rcon)]
    /\ UNCHANGED <<rcon, conns, lastRconSuccess, now, toDisconnect>>
    /\ UNCHANGED <<pluginVars, authVars, clientVars, lifeVars, reply>>

\* initRcon: if (await client.isConnected()) ... else drop the client and connect
Probing(t) ==
    LET c == rconTask[t].p IN
    /\ rconTask[t].pc = "probing"
    /\ IF isConnected(c)
       THEN /\ lastRconSuccess' = Some(now)
            /\ rconTask' = [rconTask EXCEPT ![t] = AfterInitRcon(t, "client", c, rcon)]
            /\ UNCHANGED <<rcon, conns>>
       ELSE /\ lastRconSuccess' = None
            /\ ConnectStart(t)
    /\ UNCHANGED <<now, toDisconnect>>
    /\ UNCHANGED <<pluginVars, authVars, clientVars, lifeVars, reply>>

\* initRcon: return this.rcon, the promise it has just created
AwaitNew(t) ==
    LET c == rconTask[t].p
        result == IF conns[c].st = "resolved" THEN "client" ELSE "threw"
    IN
    /\ rconTask[t].pc = "awaitNew"
    /\ Settled(c)
    /\ rconTask' = [rconTask EXCEPT ![t] = AfterInitRcon(t, result, c, rcon)]
    /\ UNCHANGED <<rcon, conns, lastRconSuccess, now, toDisconnect>>
    /\ UNCHANGED <<pluginVars, authVars, clientVars, lifeVars, reply>>

\* this.rcon.then(rcon => rcon.send(...)) once the promise is settled
SendWait(t) ==
    LET c == rconTask[t].p IN
    /\ rconTask[t].pc = "sendWait"
    /\ Settled(c)
    /\ IF conns[c].st = "resolved"
       THEN /\ rconTask' = [rconTask EXCEPT ![t] = At(t, "sending", c)]
       ELSE /\ rconTask' = [rconTask EXCEPT ![t] =
                  IF rconTask[t].op = "getRconStatus"
                  THEN Done(t, "offline") ELSE Done(t, "threw")]
    /\ UNCHANGED <<rcon, conns, lastRconSuccess, now, toDisconnect>>
    /\ UNCHANGED <<pluginVars, authVars, clientVars, lifeVars, reply>>

\* the command is answered, or send() throws
Sending(t) ==
    LET c == rconTask[t].p
        op == rconTask[t].op
    IN
    /\ rconTask[t].pc = "sending"
    /\ rconTask' = [rconTask EXCEPT ![t] =
          IF SendSucceeds(c)
          THEN Done(t, IF op = "getRconStatus" THEN "online" ELSE "replied")
          ELSE Done(t, IF op = "getRconStatus" THEN "offline" ELSE "threw")]
    /\ UNCHANGED <<rcon, conns, lastRconSuccess, now, toDisconnect>>
    /\ UNCHANGED <<pluginVars, authVars, clientVars, lifeVars, reply>>

\* rcon.connect() succeeds: this.lastRconSuccess = new Date(); resolve(rcon)
ConnectSucceeds(c) ==
    /\ conns[c].st = "pending"
    /\ status \in {"running", "healthy", "stopping"}
    /\ conns' = [conns EXCEPT ![c] = [st |-> "resolved", open |-> TRUE]]
    /\ lastRconSuccess' = Some(now)
    /\ UNCHANGED <<rcon, now, rconTask, toDisconnect>>
    /\ UNCHANGED <<pluginVars, authVars, clientVars, lifeVars, reply>>

\* a failing connect() whose catch only rejects and leaves this.rcon as it is
ConnectFailsKeepsPromise(c) ==
    /\ conns[c].st = "pending"
    /\ conns' = [conns EXCEPT ![c].st = "rejected"]
    /\ UNCHANGED <<rcon, lastRconSuccess, now, rconTask, toDisconnect>>
    /\ UNCHANGED <<pluginVars, authVars, clientVars, lifeVars, reply>>

\* rcon.connect() throws: this.rcon = null; reject(error)
ConnectFails(c) ==
    /\ conns[c].st = "pending"
    /\ conns' = [conns EXCEPT ![c].st = "rejected"]
    /\ rcon' = None
    /\ UNCHANGED <<lastRconSuccess, now, rconTask, toDisconnect>>
    /\ UNCHANGED <<pluginVars, authVars, clientVars, lifeVars, reply>>

\* the server or the network closes an established connection
ConnectionLost(c) ==
    /\ conns[c].st = "resolved" /\ conns[c].open
    /\ conns' = [conns EXCEPT ![c].open = FALSE]
    /\ UNCHANGED <<rcon, lastRconSuccess, now, rconTask, toDisconnect>>
    /\ UNCHANGED <<pluginVars, authVars, clientVars, lifeVars, reply>>

\* disconnectRcon after its await: oldRcon.then(rcon => rcon.disconnect())
Disconnect(c) ==
    /\ c \in toDisconnect
    /\ Settled(c)
    /\ conns' = [conns EXCEPT ![c].open = FALSE]
    /\ toDisconnect' = toDisconnect \ {c}
    /\ UNCHANGED <<rcon, lastRconSuccess, now, rconTask>>
    /\ UNCHANGED <<pluginVars, authVars, clientVars, lifeVars, reply>>

---------------------------------------------------------------------------
(* The worker's fetch: what is dispatched where *)

\* String.prototype.startsWith
StartsWith(str, prefix) ==
    Len(str) >= Len(prefix) /\ SubSeq(str, 1, Len(prefix)) = prefix

AuthPrefix == <<"/", "a", "u", "t", "h", "/">>
WsPrefix == <<"/", "w", "s">>
TerminalPrefix == <<"/", "s", "r", "c", "/", "t", "e", "r", "m", "i", "n", "a", "l", "/">>
WsProtocol == <<"w", "s">>

\* Math.floor(Date.now() / 1000) of the requests, and the exp values around it
NowSeconds == 1
ExpValues == 0..2

\* what await decryptToken(symKey, token) gives: an exception, null, or a
\* payload with its exp
Payloads ==
    {[kind |-> k, exp |-> 0] : k \in {"throws", "null"}}
        \cup {[kind |-> "payload", exp |-> e] : e \in ExpValues}

\* the requests: method, url, Upgrade header and token parameter, with what the
\* collaborators answer for them: requireAuth (cookieOk), getSymKeyCached
\* (symKey), decryptToken (payload, or an exception), NODE_ENV (development)
\* and whether the container stub throws
Requests ==
    [method : {"GET", "POST", "OPTIONS"},
     protocol : {<<"h", "t", "t", "p", "s", ":">>, <<"w", "s", "s", ":">>},
     pathname : {<<"/", "a", "u", "t", "h", "/", "l", "o", "g", "i", "n">>, <<"/", "a", "u", "t", "h">>, <<"/", "w", "s">>, <<"/", "s", "r", "c", "/", "t", "e", "r", "m", "i", "n", "a", "l", "/", "w", "s">>, <<"/", "a", "p", "i", "/", "s", "t", "a", "t", "u", "s">>, <<"/">>},
     upgrade : {None, Some("websocket"), Some("h2c")},
     token : {None, Some(<<>>), Some(<<"t">>)},
     cookieOk : BOOLEAN,
     symKey : BOOLEAN,
     payload : Payloads,
     development : BOOLEAN,
     stubThrows : BOOLEAN]

\* skipAuth of fetch
SkipAuth(request) ==
    \/ request.method = "OPTIONS"
    \/ StartsWith(request.pathname, AuthPrefix)
    \/ StartsWith(request.protocol, WsProtocol)
    \/ StartsWith(request.pathname, WsPrefix)
    \/ StartsWith(request.pathname, TerminalPrefix)

\* the test of fetch for a WebSocket request
IsWebSocketPath(request) ==
    \/ StartsWith(request.protocol, WsProtocol)
    \/ StartsWith(request.pathname, WsPrefix)
    \/ StartsWith(request.pathname, TerminalPrefix)

\* validateWebSocketUpgrade without the test of the method
validateWebSocketUpgradeAnyMethod(request) ==
    IF request.upgrade # Some("websocket") THEN "426" ELSE "ok"

\* validateWebSocketUpgrade(request): the status of its response, "ok" for null
validateWebSocketUpgrade(request) ==
    IF request.upgrade # Some("websocket") THEN "426"
    ELSE IF request.method # "GET" THEN "400"
    ELSE "ok"

\* validateWebSocketAuth(request): every refusal is a 401
validateWebSocketAuth(request) ==
    IF request.token = None \/ request.token = Some(<<>>) THEN "401"
    ELSE IF ~request.symKey THEN "401"
    ELSE IF request.payload.kind = "throws" THEN "401"
    ELSE IF request.payload.kind = "null" THEN "401"
    ELSE IF request.payload.exp <= NowSeconds THEN "401"
    ELSE "ok"

\* handleWebSocket(request, pathname)
handleWebSocket(request) ==
    IF request.development /\ request.method = "OPTIONS" THEN "preflight"
    ELSE IF validateWebSocketUpgrade(request) # "ok"
    THEN validateWebSocketUpgrade(request)
    ELSE IF validateWebSocketAuth(request) # "ok"
    THEN validateWebSocketAuth(request)
    ELSE IF request.stubThrows THEN "503"
    ELSE "container"

\* fetch(request): "authError", "app" for app.fetch(request), "container" for
\* container.fetch(request), or the status of the response it builds itself
fetch(request) ==
    IF ~SkipAuth(request) /\ ~request.cookieOk THEN "authError"
    ELSE IF IsWebSocketPath(request)
    THEN (IF request.upgrade = Some("websocket") \/ request.method = "OPTIONS"
          THEN handleWebSocket(request)
          ELSE "426")
    ELSE "app"

\* the worker answers a request
FetchCall(request) ==
    /\ reply' = [op |-> "fetch", request |-> request, response |-> fetch(request)]
    /\ UNCHANGED <<pluginVars, authVars, clientVars, lifeVars, rconVars>>

---------------------------------------------------------------------------
(* The terminal page: the WebSocket of one terminal type *)

maxReconnectAttempts == 10

\* WebSocket objects the page creates
MaxSockets == 3

\* SNAPSHOT messages a socket receives
MaxSnapshots == 1

\* timers that were replaced as instance.reconnectTimeout before they fired
MaxTimers == 2

SocketIds == 1..MaxSockets

\* connect(type) calls that can wait for their token at the same time
ConnectTasks == {"k1", "k2"}

\* createTerminalInstance(type): the members connect() works with
NewInstance ==
    [ws |-> None, reconnectAttempts |-> 0, reconnectTimeout |-> None,
     connected |-> FALSE]

\* a WebSocket not created yet; snapshots and acks count the SNAPSHOT messages
\* it has received and the SNAPSHOT_ACK messages sent on it
NoSocket == [readyState |-> "UNUSED", snapshots |-> 0, acks |-> 0]

\* instance.ws.readyState, "NONE" while instance.ws is null
ReadyState(inst, socks) ==
    IF inst.ws = None THEN "NONE" ELSE socks[inst.ws[1]].readyState

RECURSIVE Pow2(_)
\* Math.pow(2, n)
Pow2(n) == IF n = 0 THEN 1 ELSE 2 * Pow2(n - 1)

\* Math.min(1000 * Math.pow(2, n), 30000)
ReconnectDelay(n) ==
    IF 1000 * Pow2(n) < 30000 THEN 1000 * Pow2(n) ELSE 30000

\* the timer instance.reconnectTimeout refers to is still to fire
TimerPending(inst) ==
    inst.reconnectTimeout # None /\ inst.reconnectTimeout[1].pending

\* the retry of onclose and of the catch of connect(): under the limit, count
\* the attempt and set a timer that calls connect(type); the timer that
\* instance.reconnectTimeout referred to is not cleared
ScheduleReconnect(inst) ==
    IF inst.reconnectAttempts < maxReconnectAttempts
    THEN /\ instance' = [inst EXCEPT
                !.reconnectAttempts = @ + 1,
                !.reconnectTimeout =
                    Some([delay |-> ReconnectDelay(inst.reconnectAttempts),
                          pending |-> TRUE])]
         /\ timers' = IF TimerPending(inst) THEN timers + 1 ELSE timers
    ELSE /\ instance' = inst
         /\ UNCHANGED timers

\* connect(type) up to await fetchApi('/auth/ws-token'), called with the
\* instance as inst: an OPEN or CONNECTING socket is reused, otherwise the
\* timer is cleared and the token is asked for
ConnectBody(t, inst) ==
    IF ReadyState(inst, sockets) \in {"OPEN", "CONNECTING"}
    THEN /\ instance' = inst
         /\ UNCHANGED connectTask
    ELSE /\ instance' = [inst EXCEPT !.reconnectTimeout = None]
         /\ connectTask' = [connectTask EXCEPT ![t] = "token"]

\* connect(type) as the page calls it: on load and from doSwitchTerminal,
\* which calls it when there is no socket or the socket is closed
connect(t) ==
    /\ connectTask[t] = "idle"
    /\ ReadyState(instance, sockets) \notin {"OPEN", "CONNECTING"}
    /\ ConnectBody(t, instance)
    /\ UNCHANGED <<sockets, timers>>
    /\ UNCHANGED <<pluginVars, authVars, lifeVars, rconVars, reply>>

\* the timer of instance.reconnectTimeout fires: connect(type)
ReconnectTimerFires(t) ==
    /\ connectTask[t] = "idle"
    /\ TimerPending(instance)
    /\ ConnectBody(t, [instance EXCEPT !.reconnectTimeout[1].pending = FALSE])
    /\ UNCHANGED <<sockets, timers>>
    /\ UNCHANGED <<pluginVars, authVars, lifeVars, rconVars, reply>>

\* a timer that was replaced before it fired fires: connect(type)
ReplacedTimerFires(t) ==
    /\ connectTask[t] = "idle"
    /\ timers > 0
    /\ timers' = timers - 1
    /\ ConnectBody(t, instance)
    /\ UNCHANGED sockets
    /\ UNCHANGED <<pluginVars, authVars, lifeVars, rconVars, reply>>

\* !tokenResponse.ok: connect() returns
TokenRefused(t) ==
    /\ connectTask[t] = "token"
    /\ connectTask' = [connectTask EXCEPT ![t] = "idle"]
    /\ UNCHANGED <<instance, sockets, timers>>
    /\ UNCHANGED <<pluginVars, authVars, lifeVars, rconVars, reply>>

\* fetchApi or tokenResponse.json() throws: the catch of connect()
TokenThrows(t) ==
    /\ connectTask[t] = "token"
    /\ timers < MaxTimers
    /\ connectTask' = [connectTask EXCEPT ![t] = "idle"]
    /\ ScheduleReconnect(instance)
    /\ UNCHANGED sockets
    /\ UNCHANGED <<pluginVars, authVars, lifeVars, rconVars, reply>>

\* the token has arrived: instance.ws = new WebSocket(wsUrl, ['tty'])
TokenArrives(t) ==
    /\ connectTask[t] = "token"
    /\ \E s \in SocketIds :
          /\ sockets[s].readyState = "UNUSED"
          /\ \A r \in SocketIds : r < s => sockets[r].readyState # "UNUSED"
          /\ sockets' = [sockets EXCEPT ![s].readyState = "CONNECTING"]
          /\ instance' = [instance EXCEPT !.ws = Some(s)]
    /\ connectTask' = [connectTask EXCEPT ![t] = "idle"]
    /\ UNCHANGED timers
    /\ UNCHANGED <<pluginVars, authVars, lifeVars, rconVars, reply>>

\* onopen of socket s
SocketOpens(s) ==
    /\ sockets[s].readyState = "CONNECTING"
    /\ sockets' = [sockets EXCEPT ![s].readyState = "OPEN"]
    /\ instance' = [instance EXCEPT !.connected = TRUE, !.reconnectAttempts = 0]
    /\ UNCHANGED <<connectTask, timers>>
    /\ UNCHANGED <<pluginVars, authVars, lifeVars, rconVars, reply>>

\* socket s fails to connect or is closed by the server: onclose
SocketCloses(s) ==
    /\ sockets[s].readyState \in {"CONNECTING", "OPEN"}
    /\ timers < MaxTimers
    /\ sockets' = [sockets EXCEPT ![s].readyState = "CLOSED"]
    /\ ScheduleReconnect([instance EXCEPT !.connected = FALSE])
    /\ UNCHANGED connectTask
    /\ UNCHANGED <<pluginVars, authVars, lifeVars, rconVars, reply>>

\* handleSnapshot sends the SNAPSHOT_ACK on instance.ws, in the try when the
\* snapshot parses and renders and in the finally when it does not. send()
\* throws on a CONNECTING socket (and the finally then sends nothing, the socket
\* not being OPEN) and discards the data on a closed one: in both cases an ACK
\* goes out exactly when instance.ws is OPEN
AckSent(parses) == ReadyState(instance, sockets) = "OPEN"

\* onmessage of socket s with command '3': handleSnapshot
SnapshotArrives(s, parses) ==
    /\ sockets[s].readyState = "OPEN"
    /\ sockets[s].snapshots < MaxSnapshots
    /\ sockets' =
          [r \in SocketIds |->
              [sockets[r] EXCEPT
                  !.snapshots = IF r = s THEN @ + 1 ELSE @,
                  !.acks = IF AckSent(parses) /\ instance.ws = Some(r)
                           THEN @ + 1 ELSE @]]
    /\ UNCHANGED <<instance, connectTask, timers>>
    /\ UNCHANGED <<pluginVars, authVars, lifeVars, rconVars, reply>>

---------------------------------------------------------------------------
(* Construction *)

\* the constructor and the field initialisers, on the storage as it is: the
\* envVars initialiser reads the desired list through the getter before the
\* initialiser of _pluginFilenamesToEnable resets the cache to null
Constructed(doc, table) ==
    /\ _pluginFilenamesToEnable = None
    /\ envVars = InitialEnvVars(doc)
    /\ launchPlugins = GetPluginFilenames(None, doc)
    /\ _isPasswordSet = PasswordExists(table)
    /\ rcon = None
    /\ lastRconSuccess = None

\* a fresh identity: the tables as _initializeSql creates them
InitWith(catalogs, blockChoices, statuses) ==
    /\ json_data = EmptyDocument
    /\ auth = None
    /\ Constructed(EmptyDocument, None)
    /\ specs \in catalogs
    /\ reply = [op |-> "none"]
    /\ blocking = None
    /\ hasBlockConcurrency \in blockChoices
    /\ authTask = [t \in AuthTasks |-> IdleAuth]
    /\ createdBy = None
    /\ inserts = 0
    /\ status \in statuses
    /\ launched = IF status = "stopped" THEN None ELSE Some(launchPlugins)
    /\ startTask = [t \in StartTasks |-> IdleStart]
    /\ conns = [c \in ConnIds |-> UnusedConn]
    /\ now = StartMs
    /\ rconTask = [t \in RconTasks |-> IdleRcon]
    /\ toDisconnect = {}
    /\ instance = NewInstance
    /\ sockets = [s \in SocketIds |-> NoSocket]
    /\ connectTask = [t \in ConnectTasks |-> "idle"]
    /\ timers = 0

Init == InitWith({PLUGIN_SPECS}, {TRUE}, {"stopped"})

\* the object is evicted while no call is in progress and constructed again on
\* the next event; storage and the container stay as they are
Reinstantiate ==
    /\ \A t \in AuthTasks : authTask[t].pc \in {"idle", "done"}
    /\ \A t \in StartTasks : startTask[t].pc \in {"idle", "done"}
    /\ \A t \in RconTasks : rconTask[t].pc \in {"idle", "done"}
    /\ toDisconnect = {}
    /\ _pluginFilenamesToEnable' = None
    /\ envVars' = InitialEnvVars(json_data)
    /\ launchPlugins' = GetPluginFilenames(None, json_data)
    /\ _isPasswordSet' = PasswordExists(auth)
    /\ rcon' = None
    /\ lastRconSuccess' = None
    /\ reply' = [op |-> "none"]
    /\ UNCHANGED <<json_data, specs, auth, blocking, hasBlockConcurrency, clientVars, authTask,
                   createdBy, inserts, lifeVars, conns, now, rconTask, toDisconnect>>

---------------------------------------------------------------------------
(* Specifications *)

\* the container's own steps
Container == PortsReady \/ StopRequested \/ Exited

\* a start() call and its steps
Start ==
    \E t \in StartTasks :
        \/ StartCall(t) \/ StartStatus(t) \/ StartPoll(t)
        \/ StartRecheck(t) \/ StartPorts(t) \/ StartReturn(t)

\* the calls that read and write the desired list, without env, on the shipped
\* catalog; the object may be constructed again between them
NextPlugin ==
    \/ \E f \in Filenames : enablePlugin(f, None)
    \/ \E f \in Filenames : disablePlugin(f)
    \/ getPluginState
    \/ Reinstantiate

SpecPlugin == Init /\ [][NextPlugin]_vars

\* getPluginState between the calls that change the one optional plugin of the
\* catalog, with the life cycle
NextState ==
    \/ getPluginState
    \/ enablePlugin(PLAYIT_PLUGIN_FILENAME, None)
    \/ disablePlugin(PLAYIT_PLUGIN_FILENAME)
    \/ Start
    \/ Container
    \/ Reinstantiate

SpecState == Init /\ [][NextState]_vars

\* the awaits of a start() call are resolved by the runtime, its sleep of 250 ms
\* ends, and startAndWaitForPorts returns or throws within portReadyTimeoutMS
StartRuns ==
    \A t \in StartTasks :
        /\ WF_vars(StartStatus(t)) /\ WF_vars(StartPoll(t)) /\ WF_vars(StartRecheck(t))
        /\ WF_vars(StartPorts(t)) /\ WF_vars(StartReturn(t))

\* the calls of SpecState, with every start() call running on
SpecStart == Init /\ [][NextState]_vars /\ StartRuns


\* env names a caller may configure for a plugin: two that envVars defines and
\* one that it does not
LaunchKeys == {"RCON_PASSWORD", "OPTIONAL_PLUGINS", "K1"}

\* the env arguments of setPluginEnv in SpecLaunch: one name, one value
LaunchEnvArgs == {[k \in {key} |-> Some(<<"x">>)] : key \in LaunchKeys}

\* the plugin calls and start(), with env names that envVars defines too
NextLaunch ==
    \/ \E env \in LaunchEnvArgs : setPluginEnv(PLAYIT_PLUGIN_FILENAME, env)
    \/ enablePlugin(PLAYIT_PLUGIN_FILENAME, None)
    \/ disablePlugin(PLAYIT_PLUGIN_FILENAME)
    \/ getPluginState
    \/ Start
    \/ Container

SpecLaunch == Init /\ [][NextLaunch]_vars


\* container.getStatus(), as the worker calls it; reply is what the worker holds
\* until its next call
GetStatusRpc ==
    /\ reply' = [op |-> "getStatus", state |-> getStatus(status)]
    /\ UNCHANGED <<pluginVars, authVars, clientVars, lifeVars, rconVars>>

\* POST /plugins/:filename with env, after its getStatus() has answered
\* 'stopped': container.setPluginEnv({ filename, env })
UpdatePluginEnv(filename, env) ==
    /\ reply.op = "getStatus"
    /\ reply.state = "stopped"
    /\ setPluginEnv(filename, env)

\* POST /plugins/:filename with env, after its getStatus() has answered
\* anything else: { success: false, error }
UpdatePluginRefused ==
    /\ reply.op = "getStatus"
    /\ reply.state # "stopped"
    /\ reply' = [op |-> "updatePlugin", success |-> FALSE]
    /\ UNCHANGED <<pluginVars, authVars, clientVars, lifeVars, rconVars>>

\* plugin update requests with env, next to start() calls and the container
NextUpdate ==
    \/ GetStatusRpc
    \/ \E env \in LaunchEnvArgs : UpdatePluginEnv(PLAYIT_PLUGIN_FILENAME, env)
    \/ UpdatePluginRefused
    \/ Start
    \/ Container

SpecUpdate == Init /\ [][NextUpdate]_vars


\* the filenames the callers configure env variables for
EnvFilenames == {PLAYIT_PLUGIN_FILENAME}

\* plugin calls with env, on catalogs with and without required env variables
NextCatalog ==
    \/ \E f \in Filenames : enablePlugin(f, None)
    \/ \E f \in EnvFilenames, env \in EnvArgs : enablePlugin(f, Some(env))
    \/ \E f \in Filenames : disablePlugin(f)
    \/ \E f \in EnvFilenames, env \in EnvArgs : setPluginEnv(f, env)
    \/ getPluginState

SpecCatalog == InitWith(CatalogChoices, {TRUE}, {"stopped"}) /\ [][NextCatalog]_vars

\* enable, disable and setPluginEnv calls where each plugin of the catalog gets
\* env variables configured
NextFrame ==
    \/ \E f \in Filenames : enablePlugin(f, None)
    \/ \E i \in 1..Len(CatalogFilenames), env \in LaunchEnvArgs :
          enablePlugin(CatalogFilenames[i], Some(env))
    \/ \E f \in Filenames : disablePlugin(f)
    \/ \E i \in 1..Len(CatalogFilenames), env \in LaunchEnvArgs :
          setPluginEnv(CatalogFilenames[i], env)

SpecFrame == Init /\ [][NextFrame]_vars

\* enablePlugin and disablePlugin calls whose write succeeds or throws
NextWrite ==
    \/ \E f \in Filenames : enablePlugin(f, None)
    \/ \E f \in Filenames : disablePlugin(f)
    \/ \E f \in Filenames : enablePluginWriteFails(f)
    \/ \E f \in Filenames : disablePluginWriteFails(f)
    \/ getPluginState

SpecWrite == Init /\ [][NextWrite]_vars

\* a request the worker receives; the worker keeps nothing from one request to
\* the next, so one request is followed from each start
NextFetch ==
    /\ reply.op = "none"
    /\ \E request \in Requests : FetchCall(request)

SpecFetch == Init /\ [][NextFetch]_vars

\* the terminal page: connect calls, timers, the token request, the sockets
NextClient ==
    \/ \E t \in ConnectTasks :
          \/ connect(t)
          \/ ReconnectTimerFires(t)
          \/ ReplacedTimerFires(t)
          \/ TokenRefused(t)
          \/ TokenThrows(t)
          \/ TokenArrives(t)
    \/ \E s \in SocketIds :
          \/ SocketOpens(s)
          \/ SocketCloses(s)
          \/ \E parses \in BOOLEAN : SnapshotArrives(s, parses)

SpecClient == Init /\ [][NextClient]_vars

---------------------------------------------------------------------------
(* The plugin list *)

\* the desired enabled list, as every reader of it gets it
Desired == pluginFilenamesToEnable

\* C40 as claimed: the desired enabled list holds filenames of the catalog
\* only, enablePlugin refusing every other filename
C40_OnlyCatalogIds ==
    \A i \in 1..Len(Desired) : Desired[i] \in DOMAIN specs

\* C1: after every sequence of enablePlugin / disablePlugin calls Dynmap is in
\* the desired list, and disablePlugin on Dynmap throws and changes nothing
C1_DynmapProtected ==
    /\ [](Includes(Desired, DYNMAP_PLUGIN_FILENAME))
    /\ [][disablePlugin(DYNMAP_PLUGIN_FILENAME) =>
            /\ reply'.threw
            /\ UNCHANGED <<json_data, _pluginFilenamesToEnable, envVars>>]_vars

\* disablePlugin on Dynmap has thrown while another plugin was enabled too
C1_Witness ==
    /\ reply.op = "disablePlugin"
    /\ reply.filename = DYNMAP_PLUGIN_FILENAME
    /\ reply.threw
    /\ Includes(Desired, PLAYIT_PLUGIN_FILENAME)

\* the plugins of the running container: those it was launched with
Active == IF launched = None THEN <<>> ELSE launched[1]

\* the classification the claim gives: desired and active
ClaimedState(desired, active) ==
    IF desired /\ active THEN "ENABLED"
    ELSE IF desired THEN "DISABLED_WILL_ENABLE_AFTER_RESTART"
    ELSE IF active THEN "ENABLED_WILL_DISABLE_AFTER_RESTART"
    ELSE "DISABLED"

\* C5 as claimed: getPluginState gives every plugin of the catalog the state
\* that the desired list and the plugins of the running container determine:
\* ENABLED in both, pending enable in the desired list only, pending disable in
\* the running container only, DISABLED in neither
C5_PluginStates ==
    [][getPluginState =>
        \A i \in 1..Len(CatalogFilenames) :
            /\ reply'.plugins[i].filename = CatalogFilenames[i]
            /\ reply'.plugins[i].state =
                  ClaimedState(Includes(Desired, CatalogFilenames[i]),
                               Includes(Active, CatalogFilenames[i]))]_vars

\* what holds of getPluginState: the same classification against the plugin
\* list of the object's launch configuration
C5_StatesOfLaunchConfiguration ==
    [][getPluginState =>
        \A i \in 1..Len(CatalogFilenames) :
            /\ reply'.plugins[i].filename = CatalogFilenames[i]
            /\ reply'.plugins[i].state =
                  ClaimedState(Includes(Desired, CatalogFilenames[i]),
                               Includes(launchPlugins, CatalogFilenames[i]))]_vars

\* C21 as claimed: while no start() has been called (SpecPlugin calls none),
\* getPluginState compares against an empty active list: a plugin of the desired
\* list is pending enable, every other plugin is DISABLED, none is ENABLED
C21_NothingActiveBeforeStart ==
    [][getPluginState =>
        \A i \in 1..Len(CatalogFilenames) :
            reply'.plugins[i].state =
                IF Includes(Desired, CatalogFilenames[i])
                THEN "DISABLED_WILL_ENABLE_AFTER_RESTART"
                ELSE "DISABLED"]_vars

\* the states getPluginState gives the plugins of the catalog, for a cached
\* list, a stored document and a launch configuration
ReportedStates(cache, doc, env) ==
    [i \in 1..Len(CatalogFilenames) |->
        PluginState(GetPluginFilenames(cache, doc), Split(env.OPTIONAL_PLUGINS),
                    CatalogFilenames[i])]

\* C30 as claimed: when the object is constructed again while the container
\* runs, getPluginState reports what it reported before, and the list it
\* compares against is still the one the running container was launched with
C30_ReinstantiationKeepsReport ==
    [][(Reinstantiate /\ getStatus(status) = "running")
        => /\ ReportedStates(_pluginFilenamesToEnable', json_data', envVars')
                = ReportedStates(_pluginFilenamesToEnable, json_data, envVars)
           /\ Split(envVars'.OPTIONAL_PLUGINS) = Active]_vars

\* C32 as claimed: the cached enabled list, once there is one, is the list the
\* getter reads from storage, also after a call whose write has failed
C32_CacheIsStored ==
    _pluginFilenamesToEnable # None
        => _pluginFilenamesToEnable[1] = ParsedOptionalPlugins(json_data)

\* C6 as claimed: the desired list never holds a filename twice
C6_NoDuplicates ==
    \A i, j \in 1..Len(Desired) : i # j => Desired[i] # Desired[j]

\* a value a required env variable cannot have: none, empty or blanks only
Blank(env, key) ==
    key \notin DOMAIN env \/ \A i \in 1..Len(env[key]) : env[key][i] = SP

\* the required names of filename that are blank once env is merged into what
\* is configured
ClaimedMissing(filename, env) ==
    LET merged == MergeEnv(getConfiguredPluginEnv(filename), DefinedEntries(env))
        required == getRequiredEnvForPlugin(filename)
    IN {required[i] : i \in {n \in 1..Len(required) : Blank(merged, required[n])}}

\* this step is the enablePlugin call with env that reply' is the record of
EnableWithEnvStep ==
    /\ reply'.op = "enablePlugin"
    /\ reply'.env # None
    /\ enablePlugin(reply'.filename, reply'.env)

\* C7: enablePlugin(filename, env) throws when a required env variable is
\* missing or blank after env is merged, the error names exactly the missing
\* variables, and the desired list is as it was
C7_MissingEnvRejected ==
    [][(EnableWithEnvStep /\ ClaimedMissing(reply'.filename, reply'.env[1]) # {}) =>
            /\ reply'.threw
            /\ {reply'.missingNames[i] : i \in 1..Len(reply'.missingNames)}
                 = ClaimedMissing(reply'.filename, reply'.env[1])
            /\ Len(reply'.missingNames)
                 = Cardinality(ClaimedMissing(reply'.filename, reply'.env[1]))
            /\ Desired' = Desired
            /\ json_data'.optionalPlugins = json_data.optionalPlugins]_vars

\* enablePlugin has thrown naming one of two required variables, the other
\* one being configured
C7_Witness ==
    /\ reply.op = "enablePlugin"
    /\ reply.threw
    /\ reply.missingNames = <<"K2">>
    /\ getRequiredEnvForPlugin(reply.filename) = <<"K1", "K2">>


---------------------------------------------------------------------------
(* Authentication *)

\* setupPassword and verifyPassword calls, two of them at a time
Password ==
    \E t \in AuthTasks :
        \/ \E pw \in Passwords : SetupCall(t, pw)
        \/ SetupTransaction(t)
        \/ \E pw \in Passwords : VerifyCall(t, pw)
        \/ VerifyCompare(t)

\* the calls that read the credential
NextSetup == Password \/ getSymmetricKey \/ isPasswordSet

SpecSetup == InitWith({PLUGIN_SPECS}, BOOLEAN, {"stopped"}) /\ [][NextSetup]_vars

\* and the reset, where the platform has blockConcurrencyWhile
NextAuth == NextSetup \/ clearAuth

SpecAuth == Init /\ [][NextAuth]_vars

\* the passwords of the calls around the symmetric key and the reset
KeyPasswords == {<<>>, <<"a">>}

\* setupPassword and verifyPassword calls with these passwords, two at a time
KeyCalls ==
    \E t \in AuthTasks :
        \/ \E pw \in KeyPasswords : SetupCall(t, pw)
        \/ SetupTransaction(t)
        \/ \E pw \in KeyPasswords : VerifyCall(t, pw)
        \/ VerifyCompare(t)

\* the credential's whole life: set up, read, verified, cleared, set up again
NextKey == KeyCalls \/ getSymmetricKey \/ isPasswordSet \/ clearAuth

SpecKey == Init /\ [][NextKey]_vars

\* the credential's life with the object evicted and constructed again between
\* the calls
NextFlag == NextKey \/ Reinstantiate

SpecFlag == Init /\ [][NextFlag]_vars

\* task t has returned from a call of op
Returned(t, op) == authTask[t].op = op /\ authTask[t].pc = "done"

\* C2: of two setupPassword calls that both began while there was no row in
\* table auth, one returns created:true with a symmetric key, the other one
\* returns created:false, and one row was inserted
C2_OneCreates ==
    /\ inserts <= 1
    /\ \A t, u \in AuthTasks :
         (/\ t # u
          /\ Returned(t, "setupPassword") /\ authTask[t].seen = None
          /\ Returned(u, "setupPassword") /\ authTask[u].seen = None)
         => /\ inserts = 1
            /\ \E w \in {t, u} : \E l \in {t, u} \ {w} :
                 /\ authTask[w].ret[1].created
                 /\ authTask[w].ret[1].symKey = Some(auth[1].sym_key)
                 /\ ~authTask[w].ret[1].threw
                 /\ authTask[l].ret[1] =
                      [created |-> FALSE, symKey |-> None, threw |-> FALSE]

\* two overlapping setupPassword calls have returned, the second caller with
\* another password than the first
C2_Witness ==
    /\ Returned("a1", "setupPassword") /\ authTask["a1"].seen = None
    /\ Returned("a2", "setupPassword") /\ authTask["a2"].seen = None
    /\ authTask["a1"].password # authTask["a2"].password
    /\ authTask["a2"].ret[1].created

\* C8: verifyPassword(p), called when setupPassword(pw) has created the row,
\* returns ok:true when p = pw and ok:false for every other p, the empty
\* string included, whatever setupPassword calls came after the creation
C8_VerifyExact ==
    \A t \in AuthTasks :
        (Returned(t, "verifyPassword") /\ authTask[t].seen # None)
        => /\ ~authTask[t].ret[1].threw
           /\ authTask[t].ret[1].ok <=> (authTask[t].password = authTask[t].seen[1])

\* the password was accepted by one caller while the empty string was refused
\* to the other
C8_Witness ==
    /\ Returned("a1", "verifyPassword") /\ authTask["a1"].seen # None
    /\ authTask["a1"].ret[1].ok
    /\ Returned("a2", "verifyPassword") /\ authTask["a2"].seen # None
    /\ authTask["a2"].password = <<>>
    /\ ~authTask["a2"].ret[1].ok
    /\ inserts = 1

\* C9: setupPassword that finds a row in table auth returns created:false
\* without a symmetric key and leaves the row (salt, hash, key, creation time)
\* as it is; inside blockConcurrencyWhile the row it finds is the row there was
\* when it was called
C9_SetupKeepsRecord ==
    /\ [](\A t \in AuthTasks :
            (hasBlockConcurrency /\ authTask[t].op = "setupPassword"
                /\ authTask[t].pc = "derive") => authTask[t].seen = auth)
    /\ [][\A t \in AuthTasks :
            (auth # None /\ SetupTransaction(t)) =>
                /\ authTask'[t].ret =
                     Some([created |-> FALSE, symKey |-> None, threw |-> FALSE])
                /\ auth' = auth
                /\ _isPasswordSet' = _isPasswordSet]_vars

\* setupPassword was called with another password when the row existed, and
\* has returned
C9_Witness ==
    \E t \in AuthTasks :
        /\ Returned(t, "setupPassword")
        /\ authTask[t].seen # None
        /\ createdBy # Some(authTask[t].password)
        /\ ~authTask[t].ret[1].created

\* C10: verifyPassword called when table auth has no row returns ok:false for
\* every password and does not throw
C10_VerifyWithoutRecord ==
    \A t \in AuthTasks :
        (Returned(t, "verifyPassword") /\ authTask[t].seen = None)
        => authTask[t].ret = Some([ok |-> FALSE, threw |-> FALSE])

\* verifyPassword has returned for two different passwords, there being no row
C10_Witness ==
    /\ Returned("a1", "verifyPassword") /\ authTask["a1"].seen = None
    /\ Returned("a2", "verifyPassword") /\ authTask["a2"].seen = None
    /\ authTask["a1"].password # authTask["a2"].password
    /\ auth = None


\* this step is the transaction of a setupPassword call that inserts the row
Creates(t) ==
    /\ auth = None
    /\ auth' # None
    /\ SetupTransaction(t)

\* C25: getSymmetricKey returns a key exactly when table auth has its row, and
\* the key is the one generated by the setupPassword call that inserted the
\* row: that call stores and returns the key it generated, and the stored key
\* stays as it is as long as the row exists
C25_KeyOfTheRecord ==
    /\ [][getSymmetricKey =>
            reply'.symKey = IF auth = None THEN None ELSE Some(auth[1].sym_key)]_vars
    /\ [][\A t \in AuthTasks :
            Creates(t) =>
                /\ auth'[1].sym_key = authTask[t].symKey
                /\ authTask'[t].ret[1].symKey = Some(authTask[t].symKey)]_vars
    /\ [][(auth # None /\ auth' # None) => auth'[1].sym_key = auth[1].sym_key]_vars

\* getSymmetricKey has returned the key that a setupPassword call returned when
\* it created the record
C25_Witness ==
    /\ reply.op = "getSymmetricKey"
    /\ reply.symKey # None
    /\ \E t \in AuthTasks :
          /\ Returned(t, "setupPassword")
          /\ authTask[t].ret[1].created
          /\ authTask[t].ret[1].symKey = reply.symKey


\* C31: the cached flag that isPasswordSet returns is true exactly when table
\* auth holds a row, whatever setupPassword and clearAuth calls and
\* constructions of the object came before
C31_FlagIsRecord == _isPasswordSet <=> auth # None

\* a record was created, cleared and created again (both setupPassword calls
\* returned created:true), and the object was then constructed again: it has
\* answered no call since
C31_Witness ==
    /\ auth # None
    /\ reply.op = "none"
    /\ \A t \in AuthTasks :
          /\ Returned(t, "setupPassword")
          /\ authTask[t].ret[1].created

\* C26: clearAuth deletes the row and resets the cached flag; from then on,
\* until a setupPassword call inserts a row again, isPasswordSet answers false,
\* getSymmetricKey answers without a key, a verifyPassword call answers
\* ok:false for every password, and the transaction of a setupPassword call
\* inserts a row and returns created:true
C26_ClearedAuth ==
    /\ [][clearAuth => (auth' = None /\ ~_isPasswordSet')]_vars
    /\ [][(auth = None /\ isPasswordSet) => ~reply'.value]_vars
    /\ [][(auth = None /\ getSymmetricKey) => reply'.symKey = None]_vars
    /\ [][\A t \in AuthTasks :
            (auth = None /\ authTask'[t].op = "verifyPassword"
                /\ \E pw \in KeyPasswords : VerifyCall(t, pw))
            => authTask'[t].ret = Some([ok |-> FALSE, threw |-> FALSE])]_vars
    /\ [][\A t \in AuthTasks :
            (auth = None /\ SetupTransaction(t))
            => /\ auth' # None
               /\ authTask'[t].ret[1].created
               /\ ~authTask'[t].ret[1].threw]_vars

\* after clearAuth a setupPassword call has created a record again, with
\* another key than the record that was cleared
C26_Witness ==
    /\ reply.op = "clearAuth"
    /\ auth # None
    /\ \E t, u \in AuthTasks :
          /\ t # u
          /\ Returned(t, "setupPassword") /\ authTask[t].ret[1].created
          /\ Returned(u, "setupPassword") /\ authTask[u].ret[1].created
          /\ authTask[t].ret[1].symKey = Some(auth[1].sym_key)
          /\ authTask[u].ret[1].symKey # Some(auth[1].sym_key)


---------------------------------------------------------------------------
(* The shared RCON connection *)

\* the calls that use the connection
RconCalls ==
    \/ \E t \in RconCallers : RconCall(t, t)
    \/ \E t \in RconTasks :
        \/ GetState1(t) \/ GetState2(t)
        \/ AwaitRcon(t) \/ Probing(t) \/ AwaitNew(t)
        \/ SendWait(t) \/ Sending(t)

\* what the Rcon client and the network do
Network ==
    \E c \in ConnIds :
        \/ ConnectSucceeds(c) \/ ConnectFails(c)
        \/ ConnectionLost(c) \/ Disconnect(c)

NextRcon == RconCalls \/ Network \/ Container

\* the object is constructed while the container it started before is starting
InitStarting == InitWith({PLUGIN_SPECS}, {TRUE}, {"running"})

SpecRcon == InitStarting /\ [][NextRcon]_vars


\* the connect attempts in flight
Connecting == {c \in ConnIds : conns[c].st = "pending"}

\* C3 as claimed: while the container runs there is one connect attempt in
\* flight at most, whatever initRcon calls overlap
C3_OneConnectAttempt ==
    status \in {"running", "healthy"} => Cardinality(Connecting) <= 1

\* caller t calls into the Rcon client in this step: connect() when it creates a
\* promise, isConnected() when it starts to probe, send() when it sends
CallsRcon(t) ==
    /\ rconTask'[t].pc \in {"awaitNew", "probing", "sending"}
    /\ rconTask'[t].pc # rconTask[t].pc

\* C4 as claimed: no caller calls connect, isConnected or send while the
\* container is stopped, stopped with an exit code or stopping
C4_NoRconWhileStopped ==
    [][\A t \in RconTasks :
        CallsRcon(t) => status \notin {"stopped", "stopped_with_code", "stopping"}]_vars


\* caller t starts the liveness probe of initRcon in this step
StartsProbe(t) ==
    /\ rconTask'[t].pc = "probing"
    /\ rconTask[t].pc # "probing"

\* C13 as claimed: initRcon probes the connection only when its last
\* successful validation is older than 10 seconds (or there is none); a
\* connection validated within the last 10 seconds is returned without a probe
C13_ProbeOnlyWhenStale ==
    [][\A t \in RconTasks :
        StartsProbe(t) =>
            \/ lastRconSuccess = None
            \/ now - lastRconSuccess[1] > StaleMs]_vars

\* the callers whose liveness probe is in flight
Probes == {t \in RconTasks : rconTask[t].pc = "probing"}

\* C14 as claimed: at most one liveness probe is in flight at a time, whatever
\* initRcon calls see the same connection
C14_OneProbe == Cardinality(Probes) <= 1

\* caller t, inside initRcon, starts a probe or a connect in this step
InitRconActs(t) ==
    /\ rconTask[t].pc \in {"getState2", "awaitRcon", "probing"}
    /\ rconTask'[t].pc \in {"probing", "awaitNew"}
    /\ rconTask'[t].pc # rconTask[t].pc

\* C15 as claimed: initRcon attempts a probe or a connection only while the
\* container is running; in every other state it returns null
C15_InitRconOnlyRunning ==
    [][\A t \in RconTasks :
        InitRconActs(t) => getStatus(status) = "running"]_vars


\* the getRconStatus call ends in this step, on a promise whose connect() failed
StatusEndsUnconnected ==
    /\ rconTask["getRconStatus"].pc \in {"awaitRcon", "awaitNew", "sendWait"}
    /\ rconTask'["getRconStatus"].pc = "done"
    /\ conns[rconTask["getRconStatus"].p].st = "rejected"

\* C22 as claimed: a getRconStatus call whose connection cannot be established
\* returns { online: false } and does not throw
C22_StatusOfflineNotThrown ==
    [][StatusEndsUnconnected => rconTask'["getRconStatus"].ret = "offline"]_vars


\* onStop() has run to its end: the container has exited and disconnectRcon has
\* disconnected what it took
StopHandled ==
    /\ status \in {"stopped", "stopped_with_code"}
    /\ toDisconnect = {}

\* C23 as claimed: once the stop handler has finished the object holds no
\* connection and no connection is open, whatever initRcon calls were in
\* progress when the container stopped
C23_NoConnectionAfterStop ==
    StopHandled => (rcon = None /\ \A c \in ConnIds : ~conns[c].open)


\* caller t passes the guard of initRcon in this step while the object holds
\* no connection
AcquiresUnconnected(t) ==
    /\ rconTask[t].pc = "getState2"
    /\ rconTask'[t].pc # "getState2"
    /\ status # "stopping"
    /\ rcon = None

\* C33: a connect attempt that has failed is never what the object holds as its
\* connection: the failure leaves this.rcon null, and the next initRcon call
\* that passes the guard creates a new promise and starts a connect of its own
C33_FailedAttemptDropped ==
    /\ [](rcon # None => conns[rcon[1]].st # "rejected")
    /\ [][\A c \in ConnIds : ConnectFails(c) => rcon' = None]_vars
    /\ [][\A t \in RconTasks :
            AcquiresUnconnected(t) =>
                /\ rcon' # None
                /\ conns[rcon'[1]].st = "unused"
                /\ conns'[rcon'[1]].st = "pending"
                /\ rconTask'[t].pc = "awaitNew"]_vars

\* a connect attempt has failed and a later call has connected anew while the
\* container runs
C33_Witness ==
    /\ getStatus(status) = "running"
    /\ \E c, d \in ConnIds :
          /\ c < d
          /\ conns[c].st = "rejected"
          /\ rcon = Some(d)
          /\ conns[d].st = "resolved"


\* C34 as claimed: a connection that is open is the one the object holds or one
\* that disconnectRcon is about to disconnect; none is dropped while open
C34_NoAbandonedConnection ==
    \A c \in ConnIds :
        conns[c].open => (rcon = Some(c) \/ c \in toDisconnect)


\* C35 as claimed: a webSocketMessage call ends with one ws.send: the answer
\* of the command it sent, or the offline notice
C35_OneReplyPerMessage ==
    (rconTask["webSocketMessage"].op = "webSocketMessage"
        /\ rconTask["webSocketMessage"].pc = "done")
    => rconTask["webSocketMessage"].ret \in {"replied", "offlineNotice"}


---------------------------------------------------------------------------
(* start() *)

\* C16 as claimed: a start() call made while the container is starting or
\* running completes: it returns once the container runs, or fails when that
\* takes too long
C16_StartCompletes ==
    \A t \in StartTasks :
        (startTask[t].pc = "status" /\ getStatus(status) = "running")
            ~> (startTask[t].pc = "done")

\* C17 as claimed: a start() call that waits because the container was
\* stopping does not keep waiting once the container has stopped: it goes on
\* to startAndWaitForPorts
C17_StartAfterStopping ==
    \A t \in StartTasks :
        (startTask[t].pc = "poll" /\ getStatus(status) = "stopped")
            ~> (startTask[t].pc # "poll")


\* this step is a cold start: startAndWaitForPorts launches a container that
\* was not running
ColdStart ==
    /\ launched = None
    /\ launched' # None
    /\ \E t \in StartTasks : StartPorts(t)

\* C18 as claimed: a cold start launches the container with the desired list
\* that the start() call read from the persisted configuration, so that
\* getPluginState has no plugin pending
C18_ColdStartLaunchesDesired ==
    [][ColdStart =>
        /\ launched'[1] = launchPlugins
        /\ \A i \in 1..Len(CatalogFilenames) :
              PluginState(launchPlugins, Split(envVars.OPTIONAL_PLUGINS),
                          CatalogFilenames[i]) \in {"ENABLED", "DISABLED"}]_vars

\* C19 as claimed: the container of a cold start gets the core's values of the
\* names the core defines, whatever env is configured for the plugins:
\* RCON_PASSWORD as the initialiser gives it, OPTIONAL_PLUGINS as joined from
\* the desired list
C19_CoreKeysKept ==
    [][ColdStart =>
        /\ envVars.RCON_PASSWORD = RCON_PASSWORD
        /\ envVars.OPTIONAL_PLUGINS = Join(launchPlugins)]_vars

\* a call of start() begins in this step
StartCalled == \E t \in StartTasks : StartCall(t)

\* this step is a call of enablePlugin, disablePlugin or setPluginEnv
PluginCalled ==
    /\ reply' # reply
    /\ reply'.op \in {"enablePlugin", "disablePlugin", "setPluginEnv"}

\* C20 as claimed: no start() call made while the container is starting or
\* running changes the launch configuration, and no enablePlugin, disablePlugin
\* or setPluginEnv call does
C20_LaunchConfigurationKept ==
    /\ [][(getStatus(status) = "running" /\ StartCalled) => envVars' = envVars]_vars
    /\ [][PluginCalled => envVars' = envVars]_vars


\* C27 as claimed: the configured env of a plugin is written only while the
\* container is stopped, also when a start() call comes between the check of
\* the update request and its write
C27_EnvWrittenOnlyWhenStopped ==
    [][json_data'.pluginEnv # json_data.pluginEnv
        => getStatus(status) = "stopped"]_vars



---------------------------------------------------------------------------
(* The configured env of a plugin *)

\* key has a string value in the env argument e
Given(e, key) == key \in DOMAIN e /\ e[key] # None

\* this step is the setPluginEnv call that reply' is the record of
SetEnvStep ==
    /\ reply'.op = "setPluginEnv"
    /\ setPluginEnv(reply'.filename, reply'.env)

\* C11: setPluginEnv(id, E2) merges: after it the configured env of id has the
\* value of E2 for every key E2 gives a string for, and for every other key
\* what was configured before (by setPluginEnv(id, E1)), no more and no less
C11_SetEnvMerges ==
    [][SetEnvStep =>
        \A k \in EnvKeys :
            IF Given(reply'.env, k)
            THEN /\ k \in DOMAIN ConfiguredPluginEnvIn(json_data', reply'.filename)
                 /\ ConfiguredPluginEnvIn(json_data', reply'.filename)[k] = reply'.env[k][1]
            ELSE IF k \in DOMAIN getConfiguredPluginEnv(reply'.filename)
            THEN /\ k \in DOMAIN ConfiguredPluginEnvIn(json_data', reply'.filename)
                 /\ ConfiguredPluginEnvIn(json_data', reply'.filename)[k]
                      = getConfiguredPluginEnv(reply'.filename)[k]
            ELSE k \notin DOMAIN ConfiguredPluginEnvIn(json_data', reply'.filename)]_vars

\* setPluginEnv with K2 alone has returned, and K1 has the value of an earlier
\* call beside it
C11_Witness ==
    /\ reply.op = "setPluginEnv"
    /\ DOMAIN reply.env = {"K2"}
    /\ reply.env["K2"] = Some(<<"x">>)
    /\ getConfiguredPluginEnv(reply.filename) = [k \in {"K1", "K2"} |-> <<"x">>]

\* C12: no step removes a configured key from a plugin's env, and a null or
\* undefined value given to setPluginEnv leaves the key as it was: with its
\* value, or not configured
C12_EnvKeysStay ==
    /\ [][\A f \in Filenames :
            \A k \in DOMAIN getConfiguredPluginEnv(f) :
                k \in DOMAIN getConfiguredPluginEnv(f)']_vars
    /\ [][SetEnvStep =>
            \A k \in DOMAIN reply'.env :
                reply'.env[k] = None =>
                    IF k \in DOMAIN getConfiguredPluginEnv(reply'.filename)
                    THEN /\ k \in DOMAIN ConfiguredPluginEnvIn(json_data', reply'.filename)
                         /\ ConfiguredPluginEnvIn(json_data', reply'.filename)[k]
                              = getConfiguredPluginEnv(reply'.filename)[k]
                    ELSE k \notin DOMAIN ConfiguredPluginEnvIn(json_data', reply'.filename)]_vars

\* setPluginEnv has been given null for a key that had a value, and the value
\* is there
C12_Witness ==
    /\ reply.op = "setPluginEnv"
    /\ "K1" \in DOMAIN reply.env
    /\ reply.env["K1"] = None
    /\ "K1" \in DOMAIN getConfiguredPluginEnv(reply.filename)
    /\ getConfiguredPluginEnv(reply.filename)["K1"] = <<"x">>

---------------------------------------------------------------------------
(* What a change of the configuration leaves alone *)

\* a step that is the call enablePlugin({ filename, env })
EnableStep ==
    /\ reply'.op = "enablePlugin"
    /\ enablePlugin(reply'.filename, reply'.env)

\* a step that is the call disablePlugin({ filename })
DisableStep ==
    /\ reply'.op = "disablePlugin"
    /\ disablePlugin(reply'.filename)

\* the configured env of every plugin but filename is the same after the step
OthersEnvKept(filename) ==
    \A f \in Filenames \ {filename} :
        ConfiguredPluginEnvIn(json_data', f) = ConfiguredPluginEnvIn(json_data, f)

\* C28 as claimed: enablePlugin leaves the configured env of every plugin
\* unchanged, whatever its arguments
C28_EnableKeepsEveryEnv ==
    [][EnableStep => json_data'.pluginEnv = json_data.pluginEnv]_vars

\* C28: a change of the configuration touches only its own field: disablePlugin
\* and enablePlugin without env leave every configured env unchanged;
\* enablePlugin(id, env) merges env into the configured env of id and leaves
\* the env of every other plugin unchanged; setPluginEnv(id, env) leaves the
\* enabled list, stored and cached, and the env of every other plugin unchanged
C28_OwnFieldOnly ==
    /\ [][(DisableStep \/ (EnableStep /\ reply'.env = None))
            => json_data'.pluginEnv = json_data.pluginEnv]_vars
    /\ [][(EnableStep /\ reply'.env # None)
            => /\ OthersEnvKept(reply'.filename)
               /\ ConfiguredPluginEnvIn(json_data', reply'.filename)
                    = MergeEnv(getConfiguredPluginEnv(reply'.filename),
                               DefinedEntries(reply'.env[1]))]_vars
    /\ [][SetEnvStep
            => /\ json_data'.optionalPlugins = json_data.optionalPlugins
               /\ UNCHANGED _pluginFilenamesToEnable
               /\ OthersEnvKept(reply'.filename)]_vars

\* setPluginEnv for one plugin has returned while the other plugin has env
\* configured and an enabled list is stored
C28_Witness ==
    /\ reply.op = "setPluginEnv"
    /\ reply.filename = PLAYIT_PLUGIN_FILENAME
    /\ DOMAIN getConfiguredPluginEnv(DYNMAP_PLUGIN_FILENAME) # {}
    /\ json_data.optionalPlugins # None
    /\ Includes(json_data.optionalPlugins[1], PLAYIT_PLUGIN_FILENAME)


---------------------------------------------------------------------------
(* Authentication before dispatch *)

\* the request is one that fetch lets through without the cookie check
Exempt(request) ==
    \/ request.method = "OPTIONS"
    \/ StartsWith(request.pathname, AuthPrefix)
    \/ IsWebSocketPath(request)

\* the request carries a token that decrypts with the symmetric key and has
\* not expired
ValidToken(request) ==
    /\ request.token \notin {None, Some(<<>>)}
    /\ request.symKey
    /\ request.payload.kind = "payload"
    /\ request.payload.exp > NowSeconds

\* C36: a request that is not exempt and fails the cookie check gets the
\* error of requireAuth; app.fetch is reached only by a request that passed the
\* cookie check or is an OPTIONS or /auth/ request; container.fetch is reached
\* only by a GET request on a WebSocket path with Upgrade: websocket and a
\* valid token
C36_AuthBeforeDispatch ==
    reply.op = "fetch" =>
        /\ (~Exempt(reply.request) /\ ~reply.request.cookieOk)
              => reply.response = "authError"
        /\ reply.response = "app"
              => /\ ~IsWebSocketPath(reply.request)
                 /\ \/ reply.request.cookieOk
                    \/ reply.request.method = "OPTIONS"
                    \/ StartsWith(reply.request.pathname, AuthPrefix)
        /\ reply.response = "container"
              => /\ IsWebSocketPath(reply.request)
                 /\ reply.request.method = "GET"
                 /\ reply.request.upgrade = Some("websocket")
                 /\ ValidToken(reply.request)

\* a WebSocket upgrade without a cookie but with a valid token was forwarded to
\* the container
C36_Witness ==
    /\ reply.op = "fetch"
    /\ reply.response = "container"
    /\ ~reply.request.cookieOk
    /\ reply.request.payload.exp = NowSeconds + 1


---------------------------------------------------------------------------
(* The terminal page *)

\* the sockets that are connecting or open
LiveSockets == {s \in SocketIds : sockets[s].readyState \in {"CONNECTING", "OPEN"}}

\* C37 as claimed: a terminal type has one WebSocket at most that is
\* connecting or open, whatever connect(type) calls overlap
C37_OneLiveSocket == Cardinality(LiveSockets) <= 1

\* C38 as claimed: a SNAPSHOT message received on an open socket is answered
\* by one SNAPSHOT_ACK sent on that socket, whether or not the snapshot parses
C38_OneAckPerSnapshot ==
    [][\A s \in SocketIds :
          sockets'[s].snapshots = sockets[s].snapshots + 1
              => /\ sockets'[s].acks = sockets[s].acks + 1
                 /\ \A r \in SocketIds \ {s} : sockets'[r].acks = sockets[r].acks]_vars

\* a step in which a socket closes
SocketClosesStep ==
    \E s \in SocketIds :
        /\ sockets[s].readyState \in {"CONNECTING", "OPEN"}
        /\ sockets'[s].readyState = "CLOSED"

\* a step in which a connect(type) call that asked for its token ends without
\* a socket
ConnectFailsStep ==
    /\ \E t \in ConnectTasks : connectTask[t] = "token" /\ connectTask'[t] = "idle"
    /\ sockets' = sockets

\* a step in which a socket opens
SocketOpensStep ==
    \E s \in SocketIds :
        sockets[s].readyState = "CONNECTING" /\ sockets'[s].readyState = "OPEN"

\* C39 as claimed: after a socket closes or a connect attempt fails, under 10
\* consecutive attempts a connect is scheduled with delay min(1000*2^n, 30000)
\* and the attempt counted, at 10 nothing is scheduled; the counter never
\* exceeds 10 and is 0 after a socket opens
C39_RetryAlwaysScheduled ==
    /\ [](instance.reconnectAttempts <= maxReconnectAttempts)
    /\ [][SocketOpensStep => instance'.reconnectAttempts = 0]_vars
    /\ [][(SocketClosesStep \/ ConnectFailsStep)
            => IF instance.reconnectAttempts < maxReconnectAttempts
               THEN /\ instance'.reconnectAttempts = instance.reconnectAttempts + 1
                    /\ instance'.reconnectTimeout =
                          Some([delay |-> ReconnectDelay(instance.reconnectAttempts),
                                pending |-> TRUE])
               ELSE /\ instance'.reconnectAttempts = instance.reconnectAttempts
                    /\ instance'.reconnectTimeout = instance.reconnectTimeout
                    /\ timers' = timers]_vars


==========================================================================
